---- MODULE Spec2Model ----
(***************************************************************************)
(* Model of frontend/baileys-service.js: the instance catalog              *)
(* (InstanceStore), the session registry and connection-event reconciler   *)
(* (BaileysManager) and the HTTP handlers that compose them.               *)
(*                                                                         *)
(* The service is a single Node.js process.  Every handler runs to its     *)
(* next `await` without interruption; at an `await` on real I/O (file      *)
(* write, credential load, version fetch, QR encoding, logout, directory   *)
(* removal, message send) other handlers may run.  Each action below is    *)
(* one such uninterrupted chunk of one handler; a task slot holds the      *)
(* handler's position (pc) and its local variables across awaits.          *)
(* An `await` on a promise that is already settled (updateStatus returning *)
(* null, store.delete of a missing id, getOrCreateSession returning an     *)
(* existing session) only yields to the microtask queue, where no I/O      *)
(* completion and no new request can be delivered, so the chunk continues. *)
(***************************************************************************)
EXTENDS Integers, Sequences, FiniteSets, TLC

\* ---------------------------------------------------------------- bounds
MaxTasks == 2      \* handlers / store calls that may be in flight at once
MaxSocks == 2      \* connections (makeWASocket calls) over a run
MaxFile == 2       \* records in instances.json when the process starts

\* ------------------------------------------------------------- constants
QR_EXPIRATION_MS == 120000
ALLOWED_STATUSES == {"pending_qr", "ready", "disconnected"}
ALLOWED_MEDIA_TYPES == {"image", "video", "audio", "document", "sticker"}

InstanceIds == {"a", "b"}
Undefined == "undefined"
EmptyMetadata == "{}"
MetadataInputs == {Undefined, "{k:1}"}
StatusInputs == ALLOWED_STATUSES \cup {"bogus"}
QRTexts == {"q1"}
\* lastDisconnect.error.output.statusCode of a 'close' update
DisconnectReason == [loggedOut |-> "401", connectionClosed |-> "428"]
Causes == {Undefined, DisconnectReason.loggedOut, DisconnectReason.connectionClosed}

Slots == 1..MaxTasks

VARIABLES
  instances,   \* InstanceStore.instances: Map id -> {status, metadata}
  file,        \* content of instances.json: the array of records last written
  sessions,    \* BaileysManager.sessions: Map id -> session object (by handle)
  socks,       \* the session objects ever created, one per makeWASocket call
  authDir,     \* authDir[id]: the credential directory sessions/<id> exists
  tasks,       \* the handlers in flight: position and locals of each
  now,         \* Date.now()
  boot         \* the process: bootstrap()'s position, what it read, its log

vars == <<instances, file, sessions, socks, authDir, tasks, now, boot>>

\* ------------------------------------------------------------ Map helpers
MapHas(m, k) == k \in DOMAIN m
MapSet(m, k, v) == [x \in DOMAIN m \cup {k} |-> IF x = k THEN v ELSE m[x]]
MapDelete(m, k) == [x \in DOMAIN m \ {k} |-> m[x]]
EmptyMap == [x \in {} |-> x]

NoRecord == [status |-> "absent", metadata |-> ""]
\* InstanceStore.get
StoreGet(m, id) == IF MapHas(m, id) THEN m[id] ELSE NoRecord

\* ------------------------------------------------------- InstanceStore
\* save(): JSON.stringify(this.list()) -- the array of {id, status, metadata}
Serialize(m) ==
  {[id |-> i, status |-> m[i].status, metadata |-> m[i].metadata] : i \in DOMAIN m}

\* (mutation) create() that drops the supplied metadata
NewInstance_DropsMetadata(metadata) ==
  [status |-> "pending_qr", metadata |-> EmptyMetadata]

\* create(): the record inserted
NewInstance(metadata) ==
  [status |-> "pending_qr",
   metadata |-> IF metadata = Undefined THEN EmptyMetadata ELSE metadata]

\* (mutation) create() without the duplicate check
CreateRejects_Never(m, id) == FALSE

\* create(): the duplicate check
CreateRejects(m, id) == MapHas(m, id)

\* (mutation) updateStatus without the status check
StatusRejected_Never(status) == FALSE

\* updateStatus(): the status check
StatusRejected(status) == status \notin ALLOWED_STATUSES

\* (mutation) updateStatus that replaces the record instead of its status
WithStatus_Replaces(m, id, status) ==
  [m EXCEPT ![id] = [status |-> status, metadata |-> EmptyMetadata]]

\* updateStatus(): instance.status = status
WithStatus(m, id, status) == [m EXCEPT ![id].status = status]

\* (mutation) updateStatus that inserts a record for an id it does not know
UpdateStatus_Upserts(m, id, status) ==
  MapSet(m, id, [status |-> status,
                 metadata |-> IF MapHas(m, id) THEN m[id].metadata ELSE EmptyMetadata])

\* updateStatus(id, status) with a valid status: the catalog it leaves
\* (lines 96-100); an id that is not there is not touched
UpdateStatus(m, id, status) ==
  IF MapHas(m, id) THEN WithStatus(m, id, status) ELSE m

\* updateMetadata(): instance.metadata = metadata || {}
WithMetadata(m, id, metadata) ==
  [m EXCEPT ![id].metadata = IF metadata = Undefined THEN EmptyMetadata ELSE metadata]

\* ------------------------------------------------------------- sessions
QRNull == [type |-> "null", value |-> "", expiresAt |-> 0]
\* initializeForInstance(): the session object registered.  closed: its
\* transport has been closed; dead: the last phase it was given is a 'close'
\* whose cause is not logged-out (kept for the properties, the code has no
\* such field)
NewSession(id) ==
  [id |-> id, qr |-> QRNull, connection |-> "close", closed |-> FALSE, dead |-> FALSE]

\* (mutation) a QR stored with the issue time as its expiry
QRPayload_NoWindow(text, t) == [type |-> "base64", value |-> text, expiresAt |-> t]

\* handleConnectionUpdate(): session.qr = {type, value, expiresAt}
QRPayload(text, t) == [type |-> "base64", value |-> text, expiresAt |-> t + QR_EXPIRATION_MS]

\* Math.max, Math.floor(x / 1000)
Max(a, b) == IF a >= b THEN a ELSE b
FloorSeconds(ms) == ms \div 1000

\* (mutation) the remaining seconds without the clamp at 0
ExpiresIn_Unclamped(qr, t) == FloorSeconds(qr.expiresAt - t)

\* getQRCode(): line 247
ExpiresIn(qr, t) == Max(0, FloorSeconds(qr.expiresAt - t))

\* the connection.update events a socket may deliver
NoEvent == [qr |-> "", connection |-> "", cause |-> Undefined]
Updates ==
  {u \in [qr : QRTexts \cup {""}, connection : {"", "connecting", "open", "close"},
          cause : Causes] :
     /\ u.qr # "" \/ u.connection # ""
     /\ u.cause # Undefined => u.connection = "close"}

\* ---------------------------------------------------------------- tasks
\* a JavaScript value where a text is expected: undefined, a number, or a
\* string as the sequence of its characters
JSUndefined == [t |-> "undefined", s |-> <<>>]
JSNumber == [t |-> "number", s |-> <<>>]
Str(s) == [t |-> "string", s |-> s]

\* the body of POST /messages: hasMessage: payload.message is an object
NoPayload == [type |-> "", hasMessage |-> FALSE, text |-> JSUndefined,
              mediaUrl |-> Undefined, mediaType |-> Undefined,
              caption |-> Undefined, mimetype |-> Undefined]

\* payload.message, and what buildMessageContent returns: kind: the key the
\* content is under ("text", a media kind, or "template" for the message
\* object itself)
Message(p) == [text |-> p.text, mediaUrl |-> p.mediaUrl, mediaType |-> p.mediaType,
               caption |-> p.caption, mimetype |-> p.mimetype]
NoContent == [kind |-> "", text |-> JSUndefined, url |-> "", caption |-> Undefined,
              mimetype |-> Undefined, message |-> Message(NoPayload)]

\* op: the handler; pc: its position; id: the instance id it was called with;
\* sess: the session object it holds (0: none); csess: the one cleanupSession
\* holds; from: the socket that emitted the event; snap: the serialized
\* catalog handed to writeFile; ev: the update; arg: status or metadata
\* argument; payload: the POST /messages body; prev: the record of id when
\* a request's store call began; resp: the answer; keepData: cleanupSession's
\* option; lo: how sock.logout() settled; expiresIn: the seconds getQRCode
\* returned; held: the QR the session held when the reconciler stored a new
\* one; content: what buildMessageContent returned.
Idle == [op |-> "idle", pc |-> "idle", id |-> "", sess |-> 0, csess |-> 0,
         from |-> 0, snap |-> {}, ev |-> NoEvent, arg |-> "",
         payload |-> NoPayload, prev |-> NoRecord, resp |-> "",
         keepData |-> FALSE, lo |-> "", expiresIn |-> 0, held |-> QRNull,
         content |-> NoContent]

\* a handler that has answered (or whose promise has settled) with `r`
Finished(tk, r) == [tk EXCEPT !.pc = "done", !.snap = {}, !.resp = r]

\* (mutation) a listener without the catch: the rejection is unhandled
ListenerCatch_Rethrows(tk) == Finished(tk, "rejected")

\* lines 166-168: handleConnectionUpdate rejected; the listener's catch logs
ListenerCatch(tk) == Finished(tk, "logged")

Active == {t \in Slots : tasks[t] # Idle}
\* no answer is waiting to be observed (see Retire)
NoneDone == \A t \in Slots : tasks[t].pc # "done"
\* the lowest free slot, while fewer than K handlers are in flight
FreeSlot(t, K) ==
  /\ NoneDone
  /\ tasks[t] = Idle
  /\ \A u \in Slots : u < t => tasks[u] # Idle
  /\ Cardinality(Active) < K

\* a request is accepted only once app.listen has run (line 505); the store's
\* methods have no other callers than the handlers
Accepting(t, K) == boot.pc = "listening" /\ FreeSlot(t, K)

SetTask(t, rec) == tasks' = [tasks EXCEPT ![t] = rec]

\* ------------------------------------------------------------- the process
\* instances.json as bootstrap finds it: missing, unreadable, or a text that
\* is empty, not JSON, JSON but not an array, or an array of records
NoFile == [kind |-> "missing", records |-> <<>>]
\* the process once bootstrap() has run on an empty catalog: pending: the
\* instances whose startup initialization has not settled; failed: those
\* whose failure the batch caught and logged (line 127); logged: the
\* reconciler's catch has logged an error (line 167); prior: the catalog the
\* process before this one held when it stopped
Serving == [pc |-> "listening", raw |-> NoFile, pending |-> {}, failed |-> {},
            logged |-> FALSE, prior |-> EmptyMap]

Init ==
  /\ instances = EmptyMap
  /\ file = Serialize(EmptyMap)
  /\ sessions = EmptyMap
  /\ socks = <<>>
  /\ authDir = [i \in InstanceIds |-> FALSE]
  /\ tasks = [t \in Slots |-> Idle]
  /\ now = 0
  /\ boot = Serving

\* ------------------------------------------------ message-content building
\* String.prototype.trim(): leading and trailing white space removed
Whitespace == {" ", "\t"}
RECURSIVE TrimStart(_)
TrimStart(s) ==
  IF s # <<>> /\ Head(s) \in Whitespace THEN TrimStart(Tail(s)) ELSE s
RECURSIVE TrimEnd(_)
TrimEnd(s) ==
  IF s # <<>> /\ s[Len(s)] \in Whitespace
  THEN TrimEnd(SubSeq(s, 1, Len(s) - 1)) ELSE s
Trim(s) == TrimEnd(TrimStart(s))

\* (mutation) the text check without the trim
InvalidText_NoTrim(text) == text.t # "string" \/ text.s = <<>>

\* line 313: typeof text !== 'string' || text.trim() === ''
InvalidText(text) == text.t # "string" \/ Trim(text.s) = <<>>

\* line 327: the media kind, 'image' unless a known one is given
MediaKind(mediaType) ==
  IF mediaType \in ALLOWED_MEDIA_TYPES THEN mediaType ELSE "image"

\* lines 331, 334: a caption / mime type is carried when it is truthy
Truthy(v) == v \notin {Undefined, ""}

\* buildMessageContent(payload): [ok |-> FALSE] when it throws invalid_payload
BuildMessageContent(p) ==
  IF ~p.hasMessage THEN [ok |-> FALSE, content |-> NoContent]
  ELSE CASE p.type = "text" ->
              IF InvalidText(p.text)
              THEN [ok |-> FALSE, content |-> NoContent]
              ELSE [ok |-> TRUE,
                    content |-> [NoContent EXCEPT !.kind = "text", !.text = p.text]]
         [] p.type = "media" ->
              IF p.mediaUrl \in {Undefined, "", "<number>"}
              THEN [ok |-> FALSE, content |-> NoContent]
              ELSE [ok |-> TRUE,
                    content |->
                      [NoContent EXCEPT
                         !.kind = MediaKind(p.mediaType),
                         !.url = p.mediaUrl,
                         !.caption = IF Truthy(p.caption)
                                     THEN p.caption ELSE Undefined,
                         !.mimetype = IF Truthy(p.mimetype)
                                      THEN p.mimetype ELSE Undefined]]
         [] p.type = "template" ->
              [ok |-> TRUE,
               content |-> [NoContent EXCEPT !.kind = "template",
                                             !.message = Message(p)]]
         [] OTHER -> [ok |-> FALSE, content |-> NoContent]

TextPayload(text) ==
  [NoPayload EXCEPT !.type = "text", !.hasMessage = TRUE, !.text = Str(text)]
Hi == <<"h", "i">>
MessagePayloads ==
  {TextPayload(Hi), [NoPayload EXCEPT !.type = "unknown", !.hasMessage = TRUE]}

\* (mutation) the handler without the readiness check
NotReady_Never(s) == FALSE

\* ------------------------------------------- POST /messages: after the session
\* session.connection !== 'open'
NotReady(s) == s.connection # "open"

\* lines 473-487: the readiness check, the content check, the send call
SendDecision(tk, ss) ==
  IF NotReady(ss[tk.sess]) THEN Finished(tk, "409:instance_not_ready")
  ELSE IF ~BuildMessageContent(tk.payload).ok THEN Finished(tk, "400:invalid_payload")
  ELSE [tk EXCEPT !.pc = "send"]

\* ------------------------------------------------ GET /qrcode: after the session
\* lines 377-385: getQRCode on the session just obtained; without a QR the
\* answer depends on the status of the record fetched at line 365 (looked
\* up here in the catalog, or as it was then if the record is gone)
QRCodeAnswer(tk, ss) ==
  IF ss[tk.sess].qr = QRNull
  THEN Finished(tk, IF StoreGet(instances, tk.id).status = "ready"
                       \/ (~MapHas(instances, tk.id) /\ tk.prev.status = "ready")
                    THEN "404:qr_not_available" ELSE "404:qr_not_ready")
  ELSE Finished([tk EXCEPT !.expiresIn = ExpiresIn(ss[tk.sess].qr, now)], "200")

\* --------------------------------------------------- initializeForInstance
\* the handlers that are on their way to makeWASocket
Connecting == {t \in Slots : tasks[t].pc \in {"create_save", "init_auth", "init_version"}}
SockBudget == Len(socks) + Cardinality(Connecting) < MaxSocks

\* the caller's continuation when initializeForInstance / getOrCreateSession
\* resolves with session h
Returned(tk, h, ss) ==
  CASE tk.op = "post_instances" -> Finished([tk EXCEPT !.sess = h], "201")
    [] tk.op = "boot_init" -> Finished([tk EXCEPT !.sess = h], "registered")
    [] tk.op = "get_or_create" -> Finished([tk EXCEPT !.sess = h], "session")
    [] tk.op = "qrcode" -> QRCodeAnswer([tk EXCEPT !.sess = h], ss)
    [] tk.op = "messages" -> SendDecision([tk EXCEPT !.sess = h], ss)

\* the caller's continuation when it rejects with error.code = code
Threw(tk, code) ==
  CASE tk.op = "post_instances" ->
         Finished(tk, IF code = "" THEN "500:internal_error" ELSE "500:" \o code)
    [] tk.op = "messages" -> Finished(tk, "500:internal_error")
    [] tk.op = "boot_init" -> Finished(tk, "caught")
    [] tk.op = "get_or_create" -> Finished(tk, "threw:" \o code)
    [] tk.op = "qrcode" -> Finished(tk, "500:internal_error")

\* lines 134-146: up to the await of useMultiFileAuthState
EnterInitialize(tk) ==
  IF MapHas(sessions, tk.id) THEN Returned(tk, sessions[tk.id], socks)
  ELSE IF ~MapHas(instances, tk.id) THEN Threw(tk, "instance_not_found")
  ELSE [tk EXCEPT !.pc = "init_auth", !.snap = {}]

\* useMultiFileAuthState(authDir) settles: it creates the directory
AuthLoaded(t) ==
  /\ NoneDone
  /\ tasks[t].pc = "init_auth"
  /\ \E ok \in BOOLEAN :
       IF ok
       THEN /\ authDir' = [authDir EXCEPT ![tasks[t].id] = TRUE]
            /\ SetTask(t, [tasks[t] EXCEPT !.pc = "init_version"])
       ELSE /\ SetTask(t, Threw(tasks[t], ""))
            /\ UNCHANGED authDir
  /\ UNCHANGED <<instances, file, sessions, socks, now, boot>>

\* (mutation) establishment that does not register the session
Register_Skips(m, id, h) == m

\* the session registered by lines 156-162
Register(m, id, h) == MapSet(m, id, h)

\* fetchLatestBaileysVersion() settles; lines 149-171 run
VersionFetched(t) ==
  /\ NoneDone
  /\ tasks[t].pc = "init_version"
  /\ \E ok \in BOOLEAN :
       IF ok
       THEN LET h == Len(socks) + 1 IN
            /\ socks' = Append(socks, NewSession(tasks[t].id))
            /\ sessions' = Register(sessions, tasks[t].id, h)
            /\ SetTask(t, Returned(tasks[t], h, socks'))
       ELSE /\ SetTask(t, Threw(tasks[t], ""))
            /\ UNCHANGED <<sessions, socks>>
  /\ UNCHANGED <<instances, file, authDir, now, boot>>

\* ------------------------------------------------- bootstrap, store.init()
\* what instances.json may hold at startup: a record's status may be missing
\* ("") or any string
RawStatuses == {"", "ready", "bogus"}
RawRecords == [id : InstanceIds, status : RawStatuses, metadata : {Undefined}]
RawArrays == UNION {[1..n -> RawRecords] : n \in 0..MaxFile}
BootFiles ==
  {[kind |-> k, records |-> <<>>] :
     k \in {"missing", "unreadable", "empty", "garbage", "object"}}
  \cup {[kind |-> "array", records |-> r] : r \in RawArrays}

\* the process before bootstrap() has run
Starting(raw) == [Serving EXCEPT !.pc = "start", !.raw = raw]

InitBoot ==
  /\ instances = EmptyMap
  /\ sessions = EmptyMap
  /\ socks = <<>>
  /\ authDir = [i \in InstanceIds |-> FALSE]
  /\ tasks = [t \in Slots |-> Idle]
  /\ now = 0
  /\ \E raw \in BootFiles :
       /\ boot = Starting(raw)
       /\ file = {[id |-> r.id, status |-> r.status, metadata |-> r.metadata] :
                    r \in {raw.records[i] : i \in 1..Len(raw.records)}}

\* bootstrap() calls store.init(): ensureInstancesFile probes the file
\* (line 26) and writes '[]' when it is not there (line 28)
Bootstrap ==
  /\ boot.pc = "start"
  /\ boot' = [boot EXCEPT !.pc = IF boot.raw.kind = "missing"
                                 THEN "ensure_write" ELSE "read"]
  /\ UNCHANGED <<instances, file, sessions, socks, authDir, tasks, now>>

\* the writeFile of ensureInstancesFile settles; a rejection leaves init(),
\* then bootstrap(), rejected: process.exit(1) (lines 510-513)
EnsureWritten ==
  /\ boot.pc = "ensure_write"
  /\ \E ok \in BOOLEAN :
       IF ok
       THEN /\ file' = Serialize(EmptyMap)
            /\ boot' = [boot EXCEPT !.pc = "read"]
       ELSE /\ boot' = [boot EXCEPT !.pc = "exited"]
            /\ UNCHANGED file
  /\ UNCHANGED <<instances, sessions, socks, authDir, tasks, now>>

\* (mutation) a load that takes any file for an empty catalog
LoadFails_Never(raw) == FALSE

\* lines 42-44: readFile rejects, JSON.parse throws, or parsed.forEach is not
\* a function
LoadFails(raw) == raw.kind \in {"unreadable", "garbage", "object"}

\* (mutation) a load that ignores the stored status
LoadRecord_ForcesPending(r) ==
  [status |-> "pending_qr",
   metadata |-> IF r.metadata = Undefined THEN EmptyMetadata ELSE r.metadata]

\* lines 45-49: the record stored for a parsed element
LoadRecord(r) ==
  [status |-> IF r.status = "" THEN "pending_qr" ELSE r.status,
   metadata |-> IF r.metadata = Undefined THEN EmptyMetadata ELSE r.metadata]

\* parsed.forEach(instance => this.instances.set(instance.id, ...))
RECURSIVE LoadRecords(_, _)
LoadRecords(m, recs) ==
  IF recs = <<>> THEN m
  ELSE LoadRecords(MapSet(m, Head(recs).id, LoadRecord(Head(recs))), Tail(recs))

\* readFile settles and init() runs to its end (lines 42-51)
LoadCatalog ==
  /\ boot.pc = "read"
  /\ IF LoadFails(boot.raw)
     THEN /\ boot' = [boot EXCEPT !.pc = "exited"]
          /\ UNCHANGED instances
     ELSE /\ instances' = LoadRecords(EmptyMap, boot.raw.records)
          /\ boot' = [boot EXCEPT !.pc = "loaded"]
  /\ UNCHANGED <<file, sessions, socks, authDir, tasks, now>>

\* app.listen(PORT) (line 505)
Listen(b) == [b EXCEPT !.pc = "listening"]

\* initExistingInstances(): lines 123-126 start initializeForInstance for
\* every record, each up to its first await; with no record Promise.all
\* resolves at once and bootstrap goes on to listen.  (It continues init()'s
\* last chunk through already-settled promises: nothing can run in between.)
InitExistingInstances ==
  /\ boot.pc = "loaded"
  /\ LET ids == DOMAIN instances
         slot == CHOOSE f \in [ids -> Slots] :
                   {f[i] : i \in ids} = 1..Cardinality(ids)
     IN /\ tasks' = [t \in Slots |->
                       IF \E i \in ids : slot[i] = t
                       THEN EnterInitialize(
                              [Idle EXCEPT !.op = "boot_init",
                                           !.id = CHOOSE i \in ids : slot[i] = t])
                       ELSE Idle]
        /\ boot' = IF ids = {} THEN Listen(boot)
                   ELSE [boot EXCEPT !.pc = "init_existing", !.pending = ids]
  /\ UNCHANGED <<instances, file, sessions, socks, authDir, now>>

\* (mutation) a batch that lets the first failure through: bootstrap()
\* rejects and the process exits
BatchSettled_Aborts(b, tk) ==
  IF tk.resp = "caught" THEN [b EXCEPT !.pc = "exited"]
  ELSE LET left == b.pending \ {tk.id} IN
       IF left = {} THEN Listen([b EXCEPT !.pending = left])
       ELSE [b EXCEPT !.pending = left]

\* lines 124-129: one initializeForInstance of the batch has settled, its
\* rejection caught and logged; when the last has, Promise.all resolves and
\* bootstrap goes on to listen
BatchSettled(b, tk) ==
  LET left == b.pending \ {tk.id}
      c == [b EXCEPT !.pending = left,
                     !.failed = IF tk.resp = "caught" THEN @ \cup {tk.id} ELSE @]
  IN IF left = {} THEN Listen(c) ELSE c

\* ----------------------------------------------------------- POST /instances
ValidateInstancePayload(id, metadata) == id # ""

PostInstances(t, cf) ==
  /\ Accepting(t, cf.k)
  /\ \E id \in cf.ids \cup {""}, md \in cf.metadata :
       LET tk == [Idle EXCEPT !.op = "post_instances", !.id = id, !.arg = md] IN
       IF ~ValidateInstancePayload(id, md)
       THEN /\ SetTask(t, Finished(tk, "400:invalid_payload"))
            /\ UNCHANGED instances
       ELSE IF CreateRejects(instances, id)
       THEN /\ SetTask(t, Finished(tk, "400:instance_exists"))
            /\ UNCHANGED instances
       ELSE /\ SockBudget
            /\ instances' = MapSet(instances, id, NewInstance(md))
            /\ SetTask(t, [tk EXCEPT !.pc = "create_save",
                                     !.snap = Serialize(instances')])
  /\ UNCHANGED <<file, sessions, socks, authDir, now, boot>>

\* the writeFile of create() settles: create() returns the instance (line 79)
\* and the POST handler goes on to initializeForInstance (line 402), or
\* create() rejects and the handler's catch answers 500 (lines 404-407)
CreateSaved(t, cf) ==
  /\ NoneDone
  /\ tasks[t].pc = "create_save"
  /\ \E ok \in cf.oks :
       IF ok
       THEN /\ file' = tasks[t].snap
            /\ SetTask(t, IF tasks[t].op = "create"
                          THEN Finished(tasks[t], "instance")
                          ELSE EnterInitialize(tasks[t]))
       ELSE /\ SetTask(t, Finished(tasks[t], IF tasks[t].op = "create"
                                             THEN "rejected"
                                             ELSE "500:internal_error"))
            /\ UNCHANGED file
  /\ UNCHANGED <<instances, sessions, socks, authDir, now, boot>>

\* ------------------------------------------------------------ cleanupSession
\* how sock.logout() may settle
LogoutOutcomes == {"ok", "not_logged_in", "error"}

\* lines 222-227 once the session is out of the registry: with keepData the
\* call returns, else it goes on to remove the directory.  (Only a direct
\* call passes keepData: true; the handlers pass false, lines 200 and 425.)
AfterUnregister(tk) ==
  IF tk.keepData THEN Finished(tk, "returned")
  ELSE [tk EXCEPT !.pc = "rm", !.snap = {}]

\* lines 209-212: the lookup, then logout() when a session is registered,
\* else sessions.delete (nothing to delete) and lines 224-227
EnterCleanup(tk) ==
  IF MapHas(sessions, tk.id)
  THEN [tk EXCEPT !.pc = "logout", !.csess = sessions[tk.id], !.snap = {}]
  ELSE AfterUnregister(tk)

\* session.sock.ws?.close()
CloseTransport(ss, h) == [ss EXCEPT ![h].closed = TRUE]

\* (mutation) cleanup that leaves the registry entry
Unregister_Keeps(m, id) == m

\* this.sessions.delete(instanceId)
Unregister(m, id) == MapDelete(m, id)

\* sock.logout() settles: resolved, rejected 'not logged in' or rejected
\* otherwise -- every outcome is caught (lines 213-217) and only the log
\* differs; then ws.close() is called, and whether it returns or throws
\* (caught, line 220) the entry is deleted (line 222)
LogoutSettled(t, cf) ==
  /\ NoneDone
  /\ tasks[t].pc = "logout"
  /\ \E lo \in cf.logouts, threw \in cf.closeThrows :
       /\ socks' = IF threw THEN socks ELSE CloseTransport(socks, tasks[t].csess)
       /\ sessions' = Unregister(sessions, tasks[t].id)
       /\ SetTask(t, AfterUnregister([tasks[t] EXCEPT !.lo = lo]))
  /\ UNCHANGED <<instances, file, authDir, now, boot>>

\* (mutation) cleanup that leaves the credential directory
RemoveDir_Keeps(dirs, id) == dirs

\* fsp.rm(authDir, {recursive, force})
RemoveDir(dirs, id) == [dirs EXCEPT ![id] = FALSE]

\* (mutation) delete that empties the catalog
StoreDelete_Clears(m, id) == EmptyMap

\* InstanceStore.delete(): this.instances.delete(id)
StoreDelete(m, id) == MapDelete(m, id)

\* fsp.rm settles; cleanupSession returns to its caller: the DELETE handler
\* goes on to store.delete (line 426), the reconciler is finished
RmSettled(t) ==
  /\ NoneDone
  /\ tasks[t].pc = "rm"
  /\ \E ok \in BOOLEAN :
       IF ~ok
       THEN /\ SetTask(t, IF tasks[t].op = "event" THEN ListenerCatch(tasks[t])
                          ELSE Finished(tasks[t], "rejected"))
            /\ UNCHANGED <<authDir, instances>>
       ELSE /\ authDir' = RemoveDir(authDir, tasks[t].id)
            /\ IF tasks[t].op = "delete"
               THEN IF MapHas(instances, tasks[t].id)
                    THEN /\ instances' = StoreDelete(instances, tasks[t].id)
                         /\ SetTask(t, [tasks[t] EXCEPT
                                          !.pc = "delete_save",
                                          !.prev = instances[tasks[t].id],
                                          !.snap = Serialize(instances')])
                    ELSE /\ SetTask(t, Finished(tasks[t], "204"))
                         /\ UNCHANGED instances
               ELSE /\ SetTask(t, Finished(tasks[t], IF tasks[t].op = "cleanup"
                                                     THEN "returned" ELSE "handled"))
                    /\ UNCHANGED instances
  /\ UNCHANGED <<file, sessions, socks, now, boot>>

\* ---------------------------------------------------- DELETE /instances/:id
DeleteInstance(t, cf) ==
  /\ Accepting(t, cf.k)
  /\ \E id \in cf.ids :
       LET tk == [Idle EXCEPT !.op = "delete", !.id = id] IN
       IF ~MapHas(instances, id)
       THEN SetTask(t, Finished(tk, "404:not_found"))
       ELSE SetTask(t, EnterCleanup(tk))
  /\ UNCHANGED <<instances, file, sessions, socks, authDir, now, boot>>

\* the writeFile of delete() settles
DeleteSaved(t, cf) ==
  /\ NoneDone
  /\ tasks[t].pc = "delete_save"
  /\ \E ok \in cf.oks :
       IF ok
       THEN /\ file' = tasks[t].snap
            /\ SetTask(t, Finished(tasks[t], IF tasks[t].op = "store_delete"
                                             THEN "true" ELSE "204"))
       ELSE /\ SetTask(t, Finished(tasks[t], "rejected"))
            /\ UNCHANGED file
  /\ UNCHANGED <<instances, sessions, socks, authDir, now, boot>>

\* ----------------------------------------------- PATCH /instances/:id/status
PatchStatus(t, cf) ==
  /\ Accepting(t, cf.k)
  /\ \E id \in cf.ids, status \in cf.statuses :
       LET tk == [Idle EXCEPT !.op = "patch_status", !.id = id, !.arg = status] IN
       IF StatusRejected(status)
       THEN /\ SetTask(t, Finished(tk, "400:invalid_status"))
            /\ UNCHANGED instances
       ELSE IF ~MapHas(instances, id)
       THEN /\ SetTask(t, Finished(tk, "404:not_found"))
            /\ UNCHANGED instances
       ELSE /\ instances' = WithStatus(instances, id, status)
            /\ SetTask(t, [tk EXCEPT !.pc = "status_save",
                                     !.prev = instances[id],
                                     !.snap = Serialize(instances')])
  /\ UNCHANGED <<file, sessions, socks, authDir, now, boot>>

\* the writeFile of updateStatus() settles
StatusSaved(t, cf) ==
  /\ NoneDone
  /\ tasks[t].pc = "status_save"
  /\ \E ok \in cf.oks :
       IF ok
       THEN /\ file' = tasks[t].snap
            /\ SetTask(t, Finished(tasks[t], IF tasks[t].op = "update_status"
                                             THEN "instance" ELSE "200"))
       ELSE /\ SetTask(t, Finished(tasks[t], "rejected"))
            /\ UNCHANGED file
  /\ UNCHANGED <<instances, sessions, socks, authDir, now, boot>>

\* ------------------------------------------ InstanceStore, called directly
\* create({id, metadata}) up to the writeFile
StoreCreate(t, cf) ==
  /\ Accepting(t, cf.k)
  /\ \E id \in cf.ids \cup {""}, md \in cf.metadata :
       LET tk == [Idle EXCEPT !.op = "create", !.id = id, !.arg = md] IN
       IF id = ""
       THEN /\ SetTask(t, Finished(tk, "threw"))
            /\ UNCHANGED instances
       ELSE IF CreateRejects(instances, id)
       THEN /\ SetTask(t, Finished([tk EXCEPT !.prev = instances[id]],
                                   "threw:instance_exists"))
            /\ UNCHANGED instances
       ELSE /\ instances' = MapSet(instances, id, NewInstance(md))
            /\ SetTask(t, [tk EXCEPT !.pc = "create_save",
                                     !.snap = Serialize(instances')])
  /\ UNCHANGED <<file, sessions, socks, authDir, now, boot>>

\* delete(id) up to the writeFile
StoreDeleteCall(t, cf) ==
  /\ Accepting(t, cf.k)
  /\ \E id \in cf.ids :
       LET tk == [Idle EXCEPT !.op = "store_delete", !.id = id] IN
       IF MapHas(instances, id)
       THEN /\ instances' = StoreDelete(instances, id)
            /\ SetTask(t, [tk EXCEPT !.pc = "delete_save",
                                     !.prev = instances[id],
                                     !.snap = Serialize(instances')])
       ELSE /\ SetTask(t, Finished(tk, "false"))
            /\ UNCHANGED instances
  /\ UNCHANGED <<file, sessions, socks, authDir, now, boot>>

\* updateStatus(id, status) up to the writeFile
StoreUpdateStatus(t, cf) ==
  /\ Accepting(t, cf.k)
  /\ \E id \in cf.ids, status \in cf.statuses :
       LET tk == [Idle EXCEPT !.op = "update_status", !.id = id, !.arg = status] IN
       IF StatusRejected(status)
       THEN /\ SetTask(t, Finished(tk, "threw:invalid_status"))
            /\ UNCHANGED instances
       ELSE IF ~MapHas(instances, id)
       THEN /\ SetTask(t, Finished(tk, "null"))
            /\ UNCHANGED instances
       ELSE /\ instances' = WithStatus(instances, id, status)
            /\ SetTask(t, [tk EXCEPT !.pc = "status_save",
                                     !.prev = instances[id],
                                     !.snap = Serialize(instances')])
  /\ UNCHANGED <<file, sessions, socks, authDir, now, boot>>

\* updateMetadata(id, metadata) up to the writeFile
UpdateMetadata(t, cf) ==
  /\ Accepting(t, cf.k)
  /\ \E id \in cf.ids, md \in cf.metadata :
       LET tk == [Idle EXCEPT !.op = "update_metadata", !.id = id, !.arg = md] IN
       IF ~MapHas(instances, id)
       THEN /\ SetTask(t, Finished(tk, "null"))
            /\ UNCHANGED instances
       ELSE /\ instances' = WithMetadata(instances, id, md)
            /\ SetTask(t, [tk EXCEPT !.pc = "metadata_save",
                                     !.prev = instances[id],
                                     !.snap = Serialize(instances')])
  /\ UNCHANGED <<file, sessions, socks, authDir, now, boot>>

MetadataSaved(t, cf) ==
  /\ NoneDone
  /\ tasks[t].pc = "metadata_save"
  /\ \E ok \in cf.oks :
       IF ok
       THEN /\ file' = tasks[t].snap
            /\ SetTask(t, Finished(tasks[t], "instance"))
       ELSE /\ SetTask(t, Finished(tasks[t], "rejected"))
            /\ UNCHANGED file
  /\ UNCHANGED <<instances, sessions, socks, authDir, now, boot>>

\* ------------------------------------------ BaileysManager, called directly
\* getOrCreateSession(id) (lines 234-240) up to its first await
GetOrCreateSession(t, cf) ==
  /\ FreeSlot(t, cf.k)
  /\ \E id \in cf.ids :
       /\ MapHas(sessions, id) \/ ~MapHas(instances, id) \/ SockBudget
       /\ SetTask(t, EnterInitialize([Idle EXCEPT !.op = "get_or_create", !.id = id]))
  /\ UNCHANGED <<instances, file, sessions, socks, authDir, now, boot>>

\* cleanupSession(id, {keepData}) up to its first await
CleanupSession(t, cf) ==
  /\ FreeSlot(t, cf.k)
  /\ \E id \in cf.ids, keep \in BOOLEAN :
       SetTask(t, EnterCleanup([Idle EXCEPT !.op = "cleanup", !.id = id,
                                            !.keepData = keep]))
  /\ UNCHANGED <<instances, file, sessions, socks, authDir, now, boot>>

\* ------------------------------------------------------------ GET /qrcode
\* lines 360-375: the parameter check, the record lookup, getOrCreateSession
GetQRCodeRequest(t, cf) ==
  /\ Accepting(t, cf.k)
  /\ \E id \in cf.ids \cup {""} :
       LET tk == [Idle EXCEPT !.op = "qrcode", !.id = id,
                              !.prev = StoreGet(instances, id)] IN
       IF id = "" THEN SetTask(t, Finished(tk, "400:invalid_request"))
       ELSE IF ~MapHas(instances, id)
       THEN SetTask(t, Finished(tk, "404:not_found"))
       ELSE /\ MapHas(sessions, id) \/ SockBudget
            /\ SetTask(t, EnterInitialize(tk))
  /\ UNCHANGED <<instances, file, sessions, socks, authDir, now, boot>>

\* getQRCode(instanceId) called directly (lines 242-256): synchronous
GetQRCode(t, cf) ==
  /\ FreeSlot(t, cf.k)
  /\ \E id \in cf.ids :
       LET tk == [Idle EXCEPT !.op = "get_qr", !.id = id] IN
       IF ~MapHas(sessions, id) THEN SetTask(t, Finished(tk, "null"))
       ELSE IF socks[sessions[id]].qr = QRNull
       THEN SetTask(t, Finished([tk EXCEPT !.sess = sessions[id]], "null"))
       ELSE SetTask(t, Finished([tk EXCEPT !.sess = sessions[id],
                                           !.expiresIn =
                                             ExpiresIn(socks[sessions[id]].qr, now)],
                                "qr"))
  /\ UNCHANGED <<instances, file, sessions, socks, authDir, now, boot>>

\* time passes: Date.now() reads a later instant
Tick(cf) ==
  /\ NoneDone
  /\ \E i \in cf.instants : i > now /\ now' = i
  /\ UNCHANGED <<instances, file, sessions, socks, authDir, tasks, boot>>

\* ------------------------------------------------------------ a new process
\* the arrays JSON.parse may return for a file that holds the records f
Orderings(f) ==
  {r \in [1..Cardinality(f) -> f] : \A x \in f : \E i \in 1..Cardinality(f) : r[i] = x}

\* the process is stopped while no handler runs and started again:
\* bootstrap() builds a fresh store and an empty registry (lines 351-353);
\* instances.json and the credential directories are as the old process
\* left them
Restart ==
  /\ boot.pc = "listening"
  /\ \A t \in Slots : tasks[t] = Idle
  /\ \E recs \in Orderings(file) :
       boot' = [Starting([kind |-> "array", records |-> recs]) EXCEPT
                  !.prior = instances]
  /\ instances' = EmptyMap
  /\ sessions' = EmptyMap
  /\ socks' = <<>>
  /\ UNCHANGED <<file, authDir, tasks, now>>

\* ------------------------------------ buildMessageContent, called directly
\* the payloads tried: every type, a message that is an object or not, and
\* in the object every field missing, empty, of another type, or set
Texts ==
  {JSUndefined, JSNumber}
  \cup {Str(s) : s \in {<<>>, <<" ">>, <<"\t", " ">>, Hi, <<" ", "h">>, <<"h", " ">>}}
ContentPayloads ==
  {[NoPayload EXCEPT !.type = ty] : ty \in {Undefined, "text", "media", "template", "unknown"}}
  \cup [type : {Undefined, "text", "media", "template", "unknown"},
        hasMessage : {TRUE},
        text : Texts,
        mediaUrl : {Undefined, "", "<number>", "http://x"},
        mediaType : {Undefined, "video", "sticker", "gif"},
        caption : {Undefined, "", "c"},
        mimetype : {Undefined, "", "image/png"}]

\* buildMessageContent(payload) (lines 303-348): synchronous; it returns the
\* content or throws invalid_payload
BuildContent(t, cf) ==
  /\ FreeSlot(t, cf.k)
  /\ \E p \in cf.payloads :
       LET tk == [Idle EXCEPT !.op = "build_content", !.payload = p]
           r == BuildMessageContent(p) IN
       SetTask(t, IF r.ok THEN Finished([tk EXCEPT !.content = r.content], "content")
                  ELSE Finished(tk, "threw:invalid_payload"))
  /\ UNCHANGED <<instances, file, sessions, socks, authDir, now, boot>>

\* -------------------------------------------------------------- POST /messages
PostMessages(t, cf) ==
  /\ Accepting(t, cf.k)
  /\ \E id \in cf.ids, p \in cf.payloads :
       LET tk == [Idle EXCEPT !.op = "messages", !.id = id, !.payload = p] IN
       IF ~MapHas(instances, id)
       THEN SetTask(t, Finished(tk, "404:not_found"))
       ELSE /\ MapHas(sessions, id) \/ SockBudget
            /\ SetTask(t, EnterInitialize(tk))
  /\ UNCHANGED <<instances, file, sessions, socks, authDir, now, boot>>

\* session.sock.sendMessage(jid, content) settles
SendSettled(t) ==
  /\ NoneDone
  /\ tasks[t].pc = "send"
  /\ \E ok \in BOOLEAN :
       SetTask(t, Finished(tasks[t], IF ok THEN "202" ELSE "500:internal_error"))
  /\ UNCHANGED <<instances, file, sessions, socks, authDir, now, boot>>

\* (mutation) 'open' handled without clearing the QR
ApplyPhase_KeepsQR(s, c) == [s EXCEPT !.connection = c]

\* ------------------------------------------------- handleConnectionUpdate
\* lines 192-194: session.connection = update.connection; 'open' clears the QR
ApplyPhase(s, c) ==
  IF c = "open" THEN [s EXCEPT !.connection = c, !.qr = QRNull]
  ELSE [s EXCEPT !.connection = c]

\* the status the reconciler writes for a phase ("" : none)
PhaseStatus(c) ==
  IF c = "open" THEN "ready" ELSE IF c = "close" THEN "disconnected" ELSE ""

\* (mutation) the logged-out test inverted
IsLoggedOut_Inverted(u) == u.cause # DisconnectReason.loggedOut

\* statusCode === DisconnectReason.loggedOut
IsLoggedOut(u) == u.cause = DisconnectReason.loggedOut

\* lines 199-203, after updateStatus('disconnected') / ('ready') has returned
AfterStatus(tk) ==
  IF tk.ev.connection = "close" /\ IsLoggedOut(tk.ev)
  THEN EnterCleanup(tk)
  ELSE Finished(tk, "handled")

\* the phase event u has been applied to session s (in a run that keeps
\* track of dead sessions)
Marked(s, u, cf) ==
  IF cf.deaths
  THEN [s EXCEPT !.dead = (u.connection = "close" /\ u.cause # DisconnectReason.loggedOut)]
  ELSE s

\* lines 191-205 up to the first await, on the session objects ss
ConnectionPart(t, tk, ss, cf) ==
  LET c == tk.ev.connection IN
  IF c = ""
  THEN /\ socks' = ss
       /\ SetTask(t, Finished(tk, "handled"))
       /\ UNCHANGED instances
  ELSE /\ socks' = [ss EXCEPT ![tk.sess] = Marked(ApplyPhase(@, c), tk.ev, cf)]
       /\ IF PhaseStatus(c) # "" /\ MapHas(instances, tk.id)
          THEN /\ instances' = UpdateStatus(instances, tk.id, PhaseStatus(c))
               /\ SetTask(t, [tk EXCEPT !.pc = "conn_save",
                                        !.snap = Serialize(instances')])
          ELSE /\ SetTask(t, AfterStatus(tk))
               /\ instances' = IF PhaseStatus(c) = "" THEN instances
                               ELSE UpdateStatus(instances, tk.id, PhaseStatus(c))

\* a socket emits connection.update; the listener of lines 165-169 runs
\* handleConnectionUpdate(instanceId, update) up to its first await
ConnectionUpdate(t, cf) ==
  /\ FreeSlot(t, cf.k)
  /\ \E h \in 1..Len(socks), u \in cf.updates :
       LET tk == [Idle EXCEPT !.op = "event", !.id = socks[h].id, !.from = h,
                              !.ev = u] IN
       IF ~MapHas(sessions, tk.id)
       THEN /\ SetTask(t, Finished(tk, "handled"))
            /\ UNCHANGED <<instances, socks>>
       ELSE IF u.qr # ""
       THEN /\ SetTask(t, [tk EXCEPT !.pc = "qr_encode", !.sess = sessions[tk.id]])
            /\ UNCHANGED <<instances, socks>>
       ELSE ConnectionPart(t, [tk EXCEPT !.sess = sessions[tk.id]], socks, cf)
  /\ UNCHANGED <<file, sessions, authDir, now, boot>>

\* QRCode.toDataURL settles; lines 182-188 run up to the writeFile
QREncoded(t, cf) ==
  /\ NoneDone
  /\ tasks[t].pc = "qr_encode"
  /\ \E ok \in BOOLEAN :
       IF ~ok
       THEN /\ SetTask(t, ListenerCatch(tasks[t]))
            /\ UNCHANGED <<instances, socks>>
       ELSE LET tk == [tasks[t] EXCEPT !.held = socks[tasks[t].sess].qr]
                ss == [socks EXCEPT ![tk.sess].qr = QRPayload(tk.ev.qr, now)] IN
            IF MapHas(instances, tk.id)
            THEN /\ socks' = ss
                 /\ instances' = WithStatus(instances, tk.id, "pending_qr")
                 /\ SetTask(t, [tk EXCEPT !.pc = "qr_save",
                                          !.snap = Serialize(instances')])
            ELSE ConnectionPart(t, tk, ss, cf)
  /\ UNCHANGED <<file, sessions, authDir, now, boot>>

\* the writeFile of updateStatus('pending_qr') settles
QRStatusSaved(t, cf) ==
  /\ NoneDone
  /\ tasks[t].pc = "qr_save"
  /\ \E ok \in cf.oks :
       IF ok
       THEN /\ file' = tasks[t].snap
            /\ ConnectionPart(t, tasks[t], socks, cf)
       ELSE /\ SetTask(t, ListenerCatch(tasks[t]))
            /\ UNCHANGED <<file, instances, socks>>
  /\ UNCHANGED <<sessions, authDir, now, boot>>

\* the writeFile of updateStatus('ready' / 'disconnected') settles
ConnStatusSaved(t, cf) ==
  /\ NoneDone
  /\ tasks[t].pc = "conn_save"
  /\ \E ok \in cf.oks :
       IF ok
       THEN /\ file' = tasks[t].snap
            /\ SetTask(t, AfterStatus(tasks[t]))
       ELSE /\ SetTask(t, ListenerCatch(tasks[t]))
            /\ UNCHANGED file
  /\ UNCHANGED <<instances, sessions, socks, authDir, now, boot>>

\* ------------------------------------------------------------------ runs
\* the answer has been delivered and the handler's frame is gone.  An answer
\* is observed before anything else runs: a "done" task shows the state in
\* which its handler answered.
Retire(t, cf) ==
  /\ tasks[t].pc = "done"
  /\ SetTask(t, Idle)
  /\ boot' = IF tasks[t].op = "boot_init" THEN BatchSettled(boot, tasks[t])
             ELSE IF tasks[t].op = "event" /\ tasks[t].resp = "logged"
             THEN [boot EXCEPT !.logged = cf.journal]
             ELSE boot
  /\ UNCHANGED <<instances, file, sessions, socks, authDir, now>>

\* cf: the run's environment -- oks: the outcomes a catalog writeFile may
\* have; k: handlers in flight at once; ids, statuses, metadata, payloads:
\* what requests carry; updates: what sockets emit; journal: the run keeps
\* the fact that the reconciler's catch has logged an error; logouts: how
\* sock.logout() may settle; closeThrows: whether ws.close() may throw;
\* instants: the readings the clock may advance to; deaths: the run keeps
\* track of which sessions are dead

\* the HTTP handlers, the socket events and the completions of their I/O
Step(cf) ==
  \E t \in Slots :
    \/ PostInstances(t, cf)
    \/ CreateSaved(t, cf)
    \/ AuthLoaded(t)
    \/ VersionFetched(t)
    \/ DeleteInstance(t, cf)
    \/ LogoutSettled(t, cf)
    \/ RmSettled(t)
    \/ DeleteSaved(t, cf)
    \/ PatchStatus(t, cf)
    \/ StatusSaved(t, cf)
    \/ PostMessages(t, cf)
    \/ SendSettled(t)
    \/ ConnectionUpdate(t, cf)
    \/ QREncoded(t, cf)
    \/ QRStatusSaved(t, cf)
    \/ ConnStatusSaved(t, cf)
    \/ Retire(t, cf)

\* the InstanceStore's methods called directly, and their writes
StoreStep(cf) ==
  \E t \in Slots :
    \/ StoreCreate(t, cf)
    \/ CreateSaved(t, cf)
    \/ StoreDeleteCall(t, cf)
    \/ DeleteSaved(t, cf)
    \/ StoreUpdateStatus(t, cf)
    \/ StatusSaved(t, cf)
    \/ UpdateMetadata(t, cf)
    \/ MetadataSaved(t, cf)
    \/ Retire(t, cf)

\* an update that carries one thing: a QR, 'open', or 'close' with a cause
CoreUpdates ==
  {u \in Updates : /\ u.qr = "" \/ u.connection = ""
                   /\ u.connection # "connecting"
                   /\ u.connection = "close" => u.cause # Undefined}

\* The service with one instance id in use: requests, socket events and I/O
\* completions in any order, MaxTasks handlers in flight, writes that may fail.
Service ==
  [oks |-> BOOLEAN, k |-> MaxTasks, ids |-> {"a"}, updates |-> CoreUpdates,
   statuses |-> {"ready", "bogus"}, metadata |-> {Undefined},
   payloads |-> {TextPayload(Hi)}, journal |-> FALSE,
   logouts |-> {"ok"}, closeThrows |-> {FALSE}, instants |-> {},
   deaths |-> FALSE]

Next == Step(Service)
Spec == Init /\ [][Next]_vars

\* one handler at a time, each run to its answer before the next starts:
\* every shape of update, every status, metadata and payload
NextSeq ==
  Step([Service EXCEPT !.k = 1, !.updates = Updates, !.statuses = StatusInputs,
                       !.metadata = MetadataInputs, !.payloads = MessagePayloads])
SpecSeq == Init /\ [][NextSeq]_vars

\* the catalog alone: concurrent calls of the store's methods on two ids, on
\* a disk whose writes succeed
Catalog ==
  [oks |-> {TRUE}, k |-> MaxTasks, ids |-> InstanceIds, updates |-> {},
   statuses |-> {"ready", "bogus"}, metadata |-> MetadataInputs, payloads |-> {},
   journal |-> FALSE, logouts |-> {}, closeThrows |-> {}, instants |-> {},
   deaths |-> FALSE]
NextStore == StoreStep(Catalog)
SpecStore == Init /\ [][NextStore]_vars

\* the process from its start: bootstrap() on whatever instances.json holds,
\* the startup batch, then requests; sockets may emit as soon as they exist
BootStep(cf) ==
  \/ Bootstrap
  \/ EnsureWritten
  \/ LoadCatalog
  \/ InitExistingInstances
  \/ \E t \in Slots :
       \/ AuthLoaded(t)
       \/ VersionFetched(t)
       \/ ConnectionUpdate(t, cf)
       \/ ConnStatusSaved(t, cf)
       \/ LogoutSettled(t, cf)
       \/ RmSettled(t)
       \/ PatchStatus(t, cf)
       \/ StatusSaved(t, cf)
       \/ Retire(t, cf)

Startup ==
  [Service EXCEPT !.ids = InstanceIds,
                  !.updates = {u \in CoreUpdates : u.connection = "close"},
                  !.statuses = {"disconnected", "bogus"}]
NextBoot == BootStep(Startup)
SpecBoot == InitBoot /\ [][NextBoot]_vars

\* the store's and the manager's methods called directly, with the sockets'
\* phase events and the completions of their I/O
ManagerStep(cf) ==
  \E t \in Slots :
    \/ StoreCreate(t, cf)
    \/ CreateSaved(t, cf)
    \/ StoreDeleteCall(t, cf)
    \/ DeleteSaved(t, cf)
    \/ GetOrCreateSession(t, cf)
    \/ AuthLoaded(t)
    \/ VersionFetched(t)
    \/ CleanupSession(t, cf)
    \/ LogoutSettled(t, cf)
    \/ RmSettled(t)
    \/ ConnectionUpdate(t, cf)
    \/ ConnStatusSaved(t, cf)
    \/ Retire(t, cf)

\* concurrent calls on one id, every outcome of logout() and of ws.close(),
\* sockets that open, on a disk whose catalog writes succeed
Manager ==
  [Service EXCEPT !.oks = {TRUE}, !.logouts = LogoutOutcomes,
                  !.closeThrows = BOOLEAN,
                  !.updates = {u \in CoreUpdates : u.connection = "open"}]
NextManager == ManagerStep(Manager)
SpecManager == Init /\ [][NextManager]_vars

\* the reconciler beside requests that create instances: socket events and
\* the completions of their I/O, any of which may fail
EventStep(cf) ==
  \E t \in Slots :
    \/ PostInstances(t, cf)
    \/ CreateSaved(t, cf)
    \/ AuthLoaded(t)
    \/ VersionFetched(t)
    \/ ConnectionUpdate(t, cf)
    \/ QREncoded(t, cf)
    \/ QRStatusSaved(t, cf)
    \/ ConnStatusSaved(t, cf)
    \/ LogoutSettled(t, cf)
    \/ RmSettled(t)
    \/ Retire(t, cf)

\* two instances; sockets that issue a QR or close logged out
Reconciler ==
  [Service EXCEPT !.journal = TRUE, !.ids = InstanceIds,
                  !.updates = {u \in CoreUpdates :
                                 u.qr # "" \/ u.cause = DisconnectReason.loggedOut}]
NextEvents == EventStep(Reconciler)
SpecEvents == Init /\ [][NextEvents]_vars

\* the QR of one instance over time: its socket issues QRs and opens, the
\* clock advances between any two chunks, the QR is read through getQRCode
\* and through GET /qrcode; one handler at a time
QRStep(cf) ==
  \/ Tick(cf)
  \/ \E t \in Slots :
       \/ PostInstances(t, cf)
       \/ CreateSaved(t, cf)
       \/ AuthLoaded(t)
       \/ VersionFetched(t)
       \/ ConnectionUpdate(t, cf)
       \/ QREncoded(t, cf)
       \/ QRStatusSaved(t, cf)
       \/ ConnStatusSaved(t, cf)
       \/ GetQRCodeRequest(t, cf)
       \/ GetQRCode(t, cf)
       \/ Retire(t, cf)

\* clock readings (ms) around the 2-minute window of a QR issued at 0 or 500
Instants == {0, 500, 60000, 120000, 120500, 121500}
QRUpdates == {[NoEvent EXCEPT !.qr = x] : x \in {"q1", "q2"}}
Pairing ==
  [Service EXCEPT !.k = 1, !.instants = Instants,
                  !.updates = QRUpdates \cup {u \in CoreUpdates : u.connection = "open"}]
NextQR == QRStep(Pairing)
SpecQR == Init /\ [][NextQR]_vars

\* buildMessageContent called on every payload, in every state of one
\* instance's record and session; one handler at a time
ContentStep(cf) ==
  \E t \in Slots :
    \/ PostInstances(t, cf)
    \/ CreateSaved(t, cf)
    \/ AuthLoaded(t)
    \/ VersionFetched(t)
    \/ ConnectionUpdate(t, cf)
    \/ ConnStatusSaved(t, cf)
    \/ BuildContent(t, cf)
    \/ Retire(t, cf)

Composer ==
  [Service EXCEPT !.k = 1, !.oks = {TRUE}, !.payloads = ContentPayloads,
                  !.updates = {u \in CoreUpdates : u.connection = "open"}]
NextContent == ContentStep(Composer)
SpecContent == Init /\ [][NextContent]_vars

\* the catalog over the life of the file: a first start on a missing or empty
\* instances.json, the store's methods called one at a time while the process
\* runs, restarts that load what was saved; writes succeed
InitReload ==
  /\ instances = EmptyMap
  /\ file = Serialize(EmptyMap)
  /\ sessions = EmptyMap
  /\ socks = <<>>
  /\ authDir = [i \in InstanceIds |-> FALSE]
  /\ tasks = [t \in Slots |-> Idle]
  /\ now = 0
  /\ \E k \in {"missing", "empty"} : boot = Starting([NoFile EXCEPT !.kind = k])

ReloadStep(cf) ==
  \/ Bootstrap
  \/ EnsureWritten
  \/ LoadCatalog
  \/ InitExistingInstances
  \/ Restart
  \/ \E t \in Slots :
       \/ AuthLoaded(t)
       \/ VersionFetched(t)
       \/ StoreCreate(t, cf)
       \/ CreateSaved(t, cf)
       \/ StoreDeleteCall(t, cf)
       \/ DeleteSaved(t, cf)
       \/ StoreUpdateStatus(t, cf)
       \/ StatusSaved(t, cf)
       \/ UpdateMetadata(t, cf)
       \/ MetadataSaved(t, cf)
       \/ Retire(t, cf)

Durable == [Catalog EXCEPT !.k = 1]
NextReload == ReloadStep(Durable)
SpecReload == InitReload /\ [][NextReload]_vars

\* sessions that die: one instance whose sockets open and close for a cause
\* other than logged-out, beside the requests that create, use and delete it;
\* handlers overlap
DeadStep(cf) ==
  \E t \in Slots :
    \/ PostInstances(t, cf)
    \/ CreateSaved(t, cf)
    \/ AuthLoaded(t)
    \/ VersionFetched(t)
    \/ PostMessages(t, cf)
    \/ SendSettled(t)
    \/ ConnectionUpdate(t, cf)
    \/ ConnStatusSaved(t, cf)
    \/ DeleteInstance(t, cf)
    \/ LogoutSettled(t, cf)
    \/ RmSettled(t)
    \/ DeleteSaved(t, cf)
    \/ Retire(t, cf)

Dying ==
  [Service EXCEPT !.deaths = TRUE, !.oks = {TRUE},
                  !.updates = {u \in CoreUpdates :
                                 \/ u.connection = "open"
                                 \/ u.cause = DisconnectReason.connectionClosed}]
NextDead == DeadStep(Dying)
SpecDead == Init /\ [][NextDead]_vars

\* ======================================================== properties
\* an event task whose handler ran to its end without an error, having
\* found a session registered when it started
Handled(t) ==
  /\ tasks[t].pc = "done"
  /\ tasks[t].op = "event"
  /\ tasks[t].resp = "handled"
  /\ tasks[t].sess # 0

Unclosed(id) == {h \in 1..Len(socks) : socks[h].id = id /\ ~socks[h].closed}

\* C1: at most one live session per identifier -- however the calls of
\* getOrCreateSession / initializeForInstance for one id interleave, at most
\* one connection is open for that id.
C1_AtMostOneConnectionPerId ==
  \A id \in InstanceIds : Cardinality(Unclosed(id)) <= 1

\* C2: catalog mutations are serialized -- once every mutating call has
\* returned (all writes succeed), the file is the snapshot of the in-memory
\* catalog.
C2_FileIsCatalogWhenQuiet ==
  (\A t \in Slots : tasks[t].pc \in {"idle", "done"}) => file = Serialize(instances)

\* C3: after the reconciler has processed an 'open' update for an instance
\* with a registered session and a catalog record, the session's QR is null,
\* its phase is 'open' and the catalog status is 'ready'.
C3_OpenClearsQRAndSetsReady ==
  \A t \in Slots :
    (Handled(t) /\ tasks[t].ev.connection = "open" /\ MapHas(instances, tasks[t].id))
    => /\ MapHas(sessions, tasks[t].id)
       /\ sessions[tasks[t].id] = tasks[t].sess
       /\ socks[tasks[t].sess].qr = QRNull
       /\ socks[tasks[t].sess].connection = "open"
       /\ instances[tasks[t].id].status = "ready"

\* an 'open' update that arrived together with a QR has been handled
C3_Witness ==
  \E t \in Slots :
    Handled(t) /\ tasks[t].ev.connection = "open" /\ tasks[t].ev.qr # ""

\* C4: after the reconciler has processed a 'close' update with the
\* logged-out cause, the session is out of the registry, the credential
\* directory is deleted, and the record remains with status 'disconnected'.
C4_LoggedOutCleansUp ==
  \A t \in Slots :
    (Handled(t) /\ tasks[t].ev.connection = "close" /\ tasks[t].ev.cause = DisconnectReason.loggedOut)
    => /\ ~MapHas(sessions, tasks[t].id)
       /\ ~authDir[tasks[t].id]
       /\ MapHas(instances, tasks[t].id)
       /\ instances[tasks[t].id].status = "disconnected"

C4_Witness ==
  \E t \in Slots :
    /\ Handled(t) /\ tasks[t].ev.connection = "close" /\ tasks[t].ev.cause = DisconnectReason.loggedOut
    /\ socks[tasks[t].sess].closed

\* C5: after the reconciler has processed a 'close' update with any other
\* cause (or none), the status is 'disconnected', the credential directory
\* is still there and the session is still registered, with phase 'close'.
C5_OtherCloseKeepsSession ==
  \A t \in Slots :
    (Handled(t) /\ tasks[t].ev.connection = "close" /\ tasks[t].ev.cause # DisconnectReason.loggedOut)
    => /\ MapHas(instances, tasks[t].id)
       /\ instances[tasks[t].id].status = "disconnected"
       /\ authDir[tasks[t].id]
       /\ MapHas(sessions, tasks[t].id)
       /\ sessions[tasks[t].id] = tasks[t].sess
       /\ socks[tasks[t].sess].connection = "close"

\* a 'close' without any cause has been handled
C5_Witness ==
  \E t \in Slots :
    /\ Handled(t) /\ tasks[t].ev.connection = "close"
    /\ tasks[t].ev.cause = Undefined

\* C6: sendMessage is invoked only on the registered session while its phase
\* is 'open'; a request that obtains a session whose phase is not 'open' is
\* answered 409 instance_not_ready, without a send.
C6_SendOnlyWhenOpen ==
  [][\A t \in Slots :
       /\ (tasks[t].pc # "send" /\ tasks'[t].pc = "send")
          => /\ tasks'[t].op = "messages"
             /\ MapHas(sessions', tasks'[t].id)
             /\ sessions'[tasks'[t].id] = tasks'[t].sess
             /\ socks'[tasks'[t].sess].connection = "open"
       /\ (/\ tasks[t].pc \notin {"done", "send"}
           /\ tasks'[t].pc = "done"
           /\ tasks'[t].op = "messages"
           /\ tasks'[t].sess # 0
           /\ socks'[tasks'[t].sess].connection # "open")
          => tasks'[t].resp = "409:instance_not_ready"]_vars

\* one request's send is in flight; the phase has since left 'open' and a
\* second request has been answered 409
C6_Witness ==
  \E t, u \in Slots :
    /\ tasks[t].pc = "send"
    /\ tasks[u].pc = "done" /\ tasks[u].op = "messages"
    /\ tasks[u].resp = "409:instance_not_ready"
    /\ tasks[u].sess = tasks[t].sess

\* C7: every registered session belongs to an instance that has a catalog
\* record.
C7_SessionsHaveRecords ==
  \A id \in DOMAIN sessions : MapHas(instances, id)

\* C8: when the catalog write of a request's create / delete / updateStatus
\* fails, the error reaches the caller and the in-memory record of the id is
\* what it was before the call.
C8_FailedWriteLeavesCatalog ==
  [][\A t \in Slots :
       (/\ tasks[t].pc \in {"create_save", "delete_save", "status_save"}
        /\ tasks'[t].pc = "done"
        /\ tasks'[t].resp \in {"500:internal_error", "rejected"})
       => StoreGet(instances', tasks[t].id) = tasks[t].prev]_vars

\* C9: create with an id that is present throws instance_exists, writes
\* nothing and leaves the whole catalog as it was.
C9_DuplicateCreateRejected ==
  [][\A t \in Slots :
       (tasks[t].pc = "idle" /\ tasks'[t].op = "create"
        /\ MapHas(instances, tasks'[t].id))
       => /\ tasks'[t].pc = "done"
          /\ tasks'[t].resp = "threw:instance_exists"
          /\ instances' = instances
          /\ file' = file]_vars

\* a duplicate create that supplied other metadata has been rejected, and the
\* record still holds the metadata it had
C9_Witness ==
  \E t \in Slots :
    /\ tasks[t].pc = "done" /\ tasks[t].op = "create"
    /\ tasks[t].resp = "threw:instance_exists"
    /\ tasks[t].arg = "{k:1}"
    /\ instances[tasks[t].id].metadata = EmptyMetadata
    /\ DOMAIN instances = InstanceIds

\* C10: create with a new non-empty id inserts exactly the record
\* {id, pending_qr, supplied metadata}, leaves every other record as it was,
\* and returns the instance only once the catalog holding it is on disk.
C10_CreateInsertsAndPersists ==
  [][\A t \in Slots :
       /\ (tasks[t].pc = "idle" /\ tasks'[t].op = "create"
           /\ tasks'[t].id # "" /\ ~MapHas(instances, tasks'[t].id))
          => /\ tasks'[t].pc = "create_save"
             /\ DOMAIN instances' = DOMAIN instances \cup {tasks'[t].id}
             /\ instances'[tasks'[t].id] =
                  [status |-> "pending_qr",
                   metadata |-> IF tasks'[t].arg = Undefined
                                THEN EmptyMetadata ELSE tasks'[t].arg]
             /\ \A j \in DOMAIN instances : instances'[j] = instances[j]
             /\ tasks'[t].snap = Serialize(instances')
       /\ (tasks[t].op = "create" /\ tasks[t].pc = "create_save"
           /\ tasks'[t].pc # "create_save")
          => /\ tasks'[t].pc = "done"
             /\ tasks'[t].resp = "instance"
             /\ file' = tasks[t].snap
             /\ \E r \in file' : r.id = tasks[t].id /\ r.status = "pending_qr"]_vars

\* a create with metadata has returned beside an existing record, and the
\* file holds both
C10_Witness ==
  \E t \in Slots :
    /\ tasks[t].pc = "done" /\ tasks[t].op = "create"
    /\ tasks[t].resp = "instance" /\ tasks[t].arg = "{k:1}"
    /\ DOMAIN instances = InstanceIds
    /\ file = Serialize(instances)

\* C11: updateStatus with a status outside {pending_qr, ready, disconnected}
\* throws invalid_status whether the id is present or not, and leaves the
\* catalog and the file as they were; with a valid status and an absent id it
\* returns null and changes nothing.
C11_InvalidStatusRejected ==
  [][\A t \in Slots :
       (tasks[t].pc = "idle" /\ tasks'[t].op = "update_status")
       => /\ tasks'[t].arg \notin {"pending_qr", "ready", "disconnected"}
             => /\ tasks'[t].pc = "done"
                /\ tasks'[t].resp = "threw:invalid_status"
                /\ instances' = instances
                /\ file' = file
          /\ (/\ tasks'[t].arg \in {"pending_qr", "ready", "disconnected"}
              /\ ~MapHas(instances, tasks'[t].id))
             => /\ tasks'[t].pc = "done"
                /\ tasks'[t].resp = "null"
                /\ instances' = instances
                /\ file' = file]_vars

\* an invalid status has been rejected for an id that is in the catalog
C11_Witness ==
  \E t \in Slots :
    /\ tasks[t].pc = "done" /\ tasks[t].op = "update_status"
    /\ tasks[t].resp = "threw:invalid_status"
    /\ MapHas(instances, tasks[t].id)

\* C13: delete of an id that is not in the catalog returns false, raises
\* nothing and changes nothing (so does every repeated delete); delete of an
\* id that is in the catalog removes exactly that record and returns true.
C13_DeleteIdempotent ==
  [][\A t \in Slots :
       /\ (/\ tasks[t].pc = "idle" /\ tasks'[t].op = "store_delete"
           /\ ~MapHas(instances, tasks'[t].id))
          => /\ tasks'[t].pc = "done"
             /\ tasks'[t].resp = "false"
             /\ instances' = instances
             /\ file' = file
       /\ (/\ tasks[t].pc = "idle" /\ tasks'[t].op = "store_delete"
           /\ MapHas(instances, tasks'[t].id))
          => /\ tasks'[t].pc = "delete_save"
             /\ DOMAIN instances' = DOMAIN instances \ {tasks'[t].id}
             /\ \A j \in DOMAIN instances' : instances'[j] = instances[j]
       /\ (/\ tasks[t].op = "store_delete" /\ tasks[t].pc = "delete_save"
           /\ tasks'[t].pc # "delete_save")
          => /\ tasks'[t].pc = "done"
             /\ tasks'[t].resp = "true"
             /\ instances' = instances]_vars

\* a second delete of an id has returned false while the first delete of it
\* is still writing, and the other record is still there
C13_Witness ==
  \E t, u \in Slots :
    /\ tasks[t].pc = "done" /\ tasks[t].op = "store_delete"
    /\ tasks[t].resp = "false"
    /\ tasks[u].pc = "delete_save" /\ tasks[u].op = "store_delete"
    /\ tasks[u].id = tasks[t].id
    /\ DOMAIN instances = InstanceIds \ {tasks[t].id}

\* C12: in every reachable state -- after the load of any parseable file and
\* whatever calls and events follow -- every record's status is one of
\* pending_qr, ready, disconnected, and no two records share an identifier.
C12_StatusesValidIdsUnique ==
  /\ \A id \in DOMAIN instances :
       instances[id].status \in {"pending_qr", "ready", "disconnected"}
  /\ Cardinality(Serialize(instances)) = Cardinality(DOMAIN instances)

\* C18: the startup batch isolates failures -- an initialization that fails
\* is caught, leaves no session for its instance and does not stop the
\* process; one that succeeds has registered its session; and when the batch
\* completes every instance of the catalog has settled, the failed ones
\* without a session, the others with the session they registered (unless a
\* logged-out close has already removed it).
C18_BatchIsolatesFailures ==
  [][/\ \A t \in Slots :
          /\ (/\ tasks[t].pc # "done" /\ tasks'[t].pc = "done"
              /\ tasks'[t].op = "boot_init")
             => /\ tasks'[t].resp \in {"registered", "caught"}
                /\ tasks'[t].resp = "registered"
                   => /\ MapHas(sessions', tasks'[t].id)
                      /\ sessions'[tasks'[t].id] = tasks'[t].sess
                /\ tasks'[t].resp = "caught" => ~MapHas(sessions', tasks'[t].id)
          /\ (tasks[t].pc = "done" /\ tasks[t].op = "boot_init")
             => boot'.pc \in {"init_existing", "listening"}
     /\ (boot.pc = "init_existing" /\ boot'.pc # "init_existing")
        => /\ boot'.pc = "listening"
           /\ boot'.pending = {}
           /\ \A id \in DOMAIN instances' :
                IF id \in boot'.failed
                THEN ~MapHas(sessions', id)
                ELSE \/ MapHas(sessions', id)
                     \/ \E h \in 1..Len(socks') :
                          socks'[h].id = id /\ socks'[h].closed]_vars

\* the batch has completed on a catalog of two instances: the one that
\* failed has no session, the other has one, and the process listens
C18_Witness ==
  /\ boot.pc = "listening"
  /\ DOMAIN instances = InstanceIds
  /\ \E i \in InstanceIds :
       /\ boot.failed = {i}
       /\ DOMAIN sessions = InstanceIds \ {i}

\* C20: a catalog file that cannot be read or parsed makes the process exit
\* without ever listening; the process starts to listen only once the catalog
\* has been loaded and every instance's startup initialization has settled;
\* no request is served before that, and none after an exit.
C20_ListenOnlyAfterLoad ==
  [][/\ (boot.pc = "read" /\ boot.raw.kind \in {"unreadable", "garbage", "object"})
        => boot'.pc = "exited"
     /\ boot.pc = "exited" => boot'.pc = "exited"
     /\ boot'.pc = "listening"
        => /\ boot'.raw.kind \in {"missing", "empty", "array"}
           /\ boot'.pending = {}
           /\ \A i \in 1..Len(boot'.raw.records) :
                boot'.raw.records[i].id \in DOMAIN instances'
     /\ (boot.pc # "listening" /\ boot'.pc = "listening")
        => /\ boot.pc \in {"loaded", "init_existing"}
           /\ \A t \in Slots : tasks'[t].op # "boot_init"
     /\ \A t \in Slots :
          (tasks[t].pc = "idle" /\ tasks'[t].op = "patch_status")
          => boot.pc = "listening"]_vars

\* the process has exited on a file that is not JSON
C20_Witness ==
  /\ boot.pc = "exited"
  /\ boot.raw.kind = "garbage"

\* C16: cleanupSession(id, keepData) is resilient -- however logout() settles
\* and whether or not ws.close() throws, the call goes on without an error
\* and the registry has no session for id; with keepData it then returns and
\* the credential directory is untouched, without keepData it goes on to
\* remove the directory and returns with the directory gone.
C16_CleanupIsResilient ==
  [][\A t \in Slots :
       /\ (tasks[t].pc = "idle" /\ tasks'[t].op = "cleanup")
          => /\ authDir' = authDir
             /\ IF MapHas(sessions, tasks'[t].id)
                THEN tasks'[t].pc = "logout" /\ sessions' = sessions
                ELSE /\ ~MapHas(sessions', tasks'[t].id)
                     /\ IF tasks'[t].keepData
                        THEN tasks'[t].pc = "done" /\ tasks'[t].resp = "returned"
                        ELSE tasks'[t].pc = "rm"
       /\ (tasks[t].pc = "logout" /\ tasks'[t].pc # "logout")
          => /\ ~MapHas(sessions', tasks[t].id)
             /\ authDir' = authDir
             /\ IF tasks[t].keepData
                THEN tasks'[t].pc = "done" /\ tasks'[t].resp = "returned"
                ELSE tasks'[t].pc = "rm"
       /\ (tasks[t].op = "cleanup" /\ tasks[t].pc = "rm" /\ tasks'[t].pc # "rm")
          => /\ ~tasks[t].keepData
             /\ tasks'[t].pc = "done"
             /\ tasks'[t].resp = "returned" => ~authDir'[tasks[t].id]]_vars

\* a cleanup with keepData has returned after logout() was rejected with some
\* other error and ws.close() threw: no session is registered, the directory
\* is still there
C16_Witness ==
  \E t \in Slots :
    /\ tasks[t].pc = "done" /\ tasks[t].op = "cleanup"
    /\ tasks[t].resp = "returned"
    /\ tasks[t].keepData /\ tasks[t].lo = "error"
    /\ ~socks[tasks[t].csess].closed
    /\ ~MapHas(sessions, tasks[t].id)
    /\ authDir[tasks[t].id]

\* C19: getOrCreateSession(id) returns the registered session when there is
\* one, opening nothing; with none registered and no record it throws
\* instance_not_found, opening and registering nothing; with none registered
\* and a record it establishes, and on success has registered exactly one
\* new session, with QR null and phase 'close'.
C19_GetOrCreateSession ==
  [][\A t \in Slots :
       /\ (tasks[t].pc = "idle" /\ tasks'[t].op = "get_or_create")
          => /\ socks' = socks
             /\ sessions' = sessions
             /\ IF MapHas(sessions, tasks'[t].id)
                THEN /\ tasks'[t].pc = "done"
                     /\ tasks'[t].resp = "session"
                     /\ tasks'[t].sess = sessions[tasks'[t].id]
                ELSE IF ~MapHas(instances, tasks'[t].id)
                THEN /\ tasks'[t].pc = "done"
                     /\ tasks'[t].resp = "threw:instance_not_found"
                ELSE tasks'[t].pc = "init_auth"
       /\ (/\ tasks[t].op = "get_or_create"
           /\ tasks[t].pc \in {"init_auth", "init_version"}
           /\ tasks'[t].pc = "done")
          => IF tasks'[t].resp = "session"
             THEN /\ Len(socks') = Len(socks) + 1
                  /\ \A h \in 1..Len(socks) : socks'[h] = socks[h]
                  /\ tasks'[t].sess = Len(socks')
                  /\ socks'[Len(socks')].qr = QRNull
                  /\ socks'[Len(socks')].connection = "close"
                  /\ DOMAIN sessions' = DOMAIN sessions \cup {tasks[t].id}
                  /\ sessions'[tasks[t].id] = Len(socks')
                  /\ \A j \in DOMAIN sessions \ {tasks[t].id} :
                       sessions'[j] = sessions[j]
             ELSE socks' = socks /\ sessions' = sessions]_vars

\* a call found the session another call had registered and returned it:
\* its phase is 'open' by now, and no second connection was opened
C19_Witness ==
  \E t \in Slots :
    /\ tasks[t].pc = "done" /\ tasks[t].op = "get_or_create"
    /\ tasks[t].resp = "session"
    /\ socks[tasks[t].sess].connection = "open"
    /\ Len(socks) = 1

\* C17: a connection event's handler ends handled or with its error logged
\* by the listener's catch, whatever failed (QR encoding, catalog write,
\* directory removal): the process keeps listening, no other handler in
\* flight is touched, the handler's frame goes away, and the process is alive
\* to reconcile what its sockets emit next.
C17_ReconcileErrorsSwallowed ==
  [][/\ \A t \in Slots :
          /\ (/\ tasks[t].pc # "done" /\ tasks'[t].pc = "done"
              /\ tasks'[t].op = "event")
             => /\ tasks'[t].resp \in {"handled", "logged"}
                /\ boot' = boot
                /\ \A u \in Slots \ {t} : tasks'[u] = tasks[u]
          /\ (tasks[t].pc = "done" /\ tasks[t].op = "event")
             => /\ tasks'[t] = Idle
                /\ boot'.pc = "listening"
                /\ sessions' = sessions
                /\ \A u \in Slots \ {t} : tasks'[u] = tasks[u]
     /\ boot'.logged => boot'.pc = "listening"]_vars

\* after an event's error was logged, a QR event has been reconciled: the
\* session holds its QR and the catalog says pending_qr
C17_Witness ==
  \E t \in Slots :
    /\ boot.logged
    /\ Handled(t)
    /\ tasks[t].ev.qr # ""
    /\ socks[tasks[t].sess].qr.value = tasks[t].ev.qr
    /\ instances[tasks[t].id].status = "pending_qr"

\* C14: when the reconciler processes a QR event for an instance with a
\* registered session, the session's QR becomes the new payload -- whatever
\* it held before -- with expiry = the time of processing + 2 minutes, and the
\* catalog status becomes 'pending_qr'; both are so when the handler ends.
C14_QRStoredWithExpiry ==
  [][\A t \in Slots :
       /\ (tasks[t].pc = "qr_encode" /\ tasks'[t].pc \notin {"qr_encode", "done"})
          => /\ tasks'[t].pc = "qr_save"
             /\ sessions[tasks[t].id] = tasks[t].sess
             /\ socks'[tasks[t].sess].qr =
                  [type |-> "base64", value |-> tasks[t].ev.qr,
                   expiresAt |-> now + 2 * 60 * 1000]
             /\ instances'[tasks[t].id].status = "pending_qr"
       /\ (/\ tasks[t].pc = "qr_save" /\ tasks'[t].pc = "done"
           /\ tasks'[t].resp = "handled")
          => /\ socks'[tasks[t].sess].qr.value = tasks[t].ev.qr
             /\ socks'[tasks[t].sess].qr.expiresAt <= now + 2 * 60 * 1000
             /\ sessions'[tasks[t].id] = tasks[t].sess
             /\ instances'[tasks[t].id].status = "pending_qr"]_vars

\* a second QR, issued half a second into the run, has replaced the first:
\* the session holds it with the later expiry
C14_Witness ==
  \E t \in Slots :
    /\ Handled(t)
    /\ tasks[t].ev.qr = "q2"
    /\ tasks[t].held.value = "q1"
    /\ tasks[t].held.expiresAt = 120000
    /\ socks[tasks[t].sess].qr.value = "q2"
    /\ socks[tasks[t].sess].qr.expiresAt = 120500

\* C15: getQRCode returns null when no session is registered or the session
\* holds no QR; otherwise expiresIn = max(0, floor((expiresAt - now)/1000)):
\* never negative, exactly 0 from the expiry instant on, and for one payload
\* never larger at a later instant than at an earlier one.
C15_ExpiresInClampedMonotone ==
  [][/\ \A t \in Slots :
          (tasks[t].pc = "idle" /\ tasks'[t].op = "get_qr")
          => IF \/ ~MapHas(sessions, tasks'[t].id)
                \/ socks[sessions[tasks'[t].id]].qr.type = "null"
             THEN tasks'[t].resp = "null"
             ELSE LET left == socks[sessions[tasks'[t].id]].qr.expiresAt - now IN
                  /\ tasks'[t].resp = "qr"
                  /\ tasks'[t].expiresIn >= 0
                  /\ left <= 0 => tasks'[t].expiresIn = 0
                  /\ left > 0 => /\ tasks'[t].expiresIn * 1000 <= left
                                 /\ left < (tasks'[t].expiresIn + 1) * 1000
     /\ \A h \in 1..Len(socks) :
          (socks[h].qr.type # "null" /\ socks'[h].qr = socks[h].qr)
          => ExpiresIn(socks'[h].qr, now') <= ExpiresIn(socks[h].qr, now)]_vars

\* a read after the expiry instant has returned 0 for a QR that is still held
C15_Witness ==
  \E t \in Slots :
    /\ tasks[t].pc = "done" /\ tasks[t].op = "get_qr"
    /\ tasks[t].resp = "qr"
    /\ tasks[t].expiresIn = 0
    /\ now > socks[tasks[t].sess].qr.expiresAt

\* a buildMessageContent call just made in slot t, and how it ended
Built(t) == tasks[t].pc = "idle" /\ tasks'[t].op = "build_content"
Invalid(t) == tasks'[t].pc = "done" /\ tasks'[t].resp = "threw:invalid_payload"
Yielded(t, c) ==
  /\ tasks'[t].pc = "done"
  /\ tasks'[t].resp = "content"
  /\ tasks'[t].content = c
Plain == [kind |-> "", text |-> [t |-> "undefined", s |-> <<>>], url |-> "",
          caption |-> "undefined", mimetype |-> "undefined",
          message |-> [text |-> [t |-> "undefined", s |-> <<>>],
                       mediaUrl |-> "undefined", mediaType |-> "undefined",
                       caption |-> "undefined", mimetype |-> "undefined"]]
Blank(text) == \A i \in 1..Len(text.s) : text.s[i] \in {" ", "\t"}
MediaOf(p) ==
  [Plain EXCEPT !.kind = IF p.mediaType \in {"image", "video", "audio", "document", "sticker"}
                         THEN p.mediaType ELSE "image",
                !.url = p.mediaUrl,
                !.caption = IF p.caption \in {"undefined", ""} THEN "undefined" ELSE p.caption,
                !.mimetype = IF p.mimetype \in {"undefined", ""} THEN "undefined" ELSE p.mimetype]
\* what the claim says of the types text and media and of every other type
TextMediaOther(t, p) ==
  /\ p.type = "text"
     => IF p.text.t # "string" \/ Blank(p.text) THEN Invalid(t)
        ELSE Yielded(t, [Plain EXCEPT !.kind = "text", !.text = p.text])
  /\ p.type = "media"
     => IF p.mediaUrl \in {"undefined", "", "<number>"} THEN Invalid(t)
        ELSE Yielded(t, MediaOf(p))
  /\ p.type \notin {"text", "media", "template"} => Invalid(t)
Untouched ==
  /\ instances' = instances /\ file' = file
  /\ sessions' = sessions /\ socks' = socks /\ authDir' = authDir

\* C21 (as stated): message-content building is a pure function of the
\* payload -- text fails when missing, not a string, empty or only white
\* space and otherwise yields the text; media fails without a URL string and
\* otherwise yields the URL under the given kind (image when none or unknown)
\* with caption and mime type only when supplied; template yields the message
\* verbatim; any other type fails; no call changes catalog or session state.
C21_TemplateAlwaysVerbatim ==
  [][\A t \in Slots :
       Built(t)
       => /\ TextMediaOther(t, tasks'[t].payload)
          /\ tasks'[t].payload.type = "template"
             => Yielded(t, [Plain EXCEPT !.kind = "template",
                                         !.message = Message(tasks'[t].payload)])
          /\ Untouched]_vars

\* C21 (amended): as above, except that a payload whose message is missing or
\* not an object fails whatever its type, template included; a template with
\* a message object yields that object verbatim.
C21_ContentIsPureFunction ==
  [][\A t \in Slots :
       Built(t)
       => /\ TextMediaOther(t, tasks'[t].payload)
          /\ ~tasks'[t].payload.hasMessage => Invalid(t)
          /\ (tasks'[t].payload.type = "template" /\ tasks'[t].payload.hasMessage)
             => Yielded(t, [Plain EXCEPT !.kind = "template",
                                         !.message = Message(tasks'[t].payload)])
          /\ Untouched]_vars

\* a text with white space around it has been yielded untrimmed while the
\* instance has a record and an open session
C21_Witness ==
  \E t \in Slots :
    /\ tasks[t].pc = "done" /\ tasks[t].op = "build_content"
    /\ tasks[t].resp = "content"
    /\ tasks[t].content.text = Str(<<" ", "h">>)
    /\ MapHas(sessions, "a") /\ socks[sessions["a"]].connection = "open"

\* C22: the catalog round-trips through the file -- whatever catalog a
\* sequence of successful create, delete, updateStatus and updateMetadata
\* calls has reached, a fresh store that loads the persisted file holds
\* exactly the same records (ids, statuses, metadata); and when the file is
\* absent the load yields the empty catalog and has persisted an empty
\* collection.
C22_CatalogRoundTrips ==
  [][(boot.pc = "read" /\ boot'.pc # "read")
     => /\ boot'.pc = "loaded"
        /\ instances' = boot.prior
        /\ boot.raw.kind = "missing"
           => /\ instances' = [x \in {} |-> x]
              /\ file' = {}]_vars

\* a fresh store has loaded a catalog of two records, one set to 'ready' and
\* given metadata, the other created with none
C22_Witness ==
  /\ boot.pc = "loaded"
  /\ instances = boot.prior
  /\ DOMAIN instances = InstanceIds
  /\ \E i, j \in InstanceIds :
       /\ instances[i] = [status |-> "ready", metadata |-> "{k:1}"]
       /\ instances[j] = [status |-> "pending_qr", metadata |-> "{}"]

\* C23: reconciliation for one instance never runs concurrently with itself
\* -- while the handling of one connection event of an instance is still in
\* progress (its QR encoding, its catalog write), the handling of the next
\* event of that instance changes neither session nor catalog state.
C23_ReconcileNeverOverlaps ==
  [][\A t, u \in Slots :
       (/\ t # u
        /\ tasks[t].op = "event" /\ tasks[t].pc \notin {"idle", "done"}
        /\ tasks[u].pc = "idle" /\ tasks'[u].op = "event"
        /\ tasks'[u].id = tasks[t].id)
       => /\ socks' = socks
          /\ instances' = instances]_vars

\* C24: after a 'close' event with a cause other than logged-out, the dead
\* session stays registered and every later getOrCreateSession /
\* initializeForInstance for the id returns that same session and opens no
\* connection; its phase stays 'close' and send requests for the id are
\* answered instance_not_ready until that same connection handle emits 'open'
\* or the session is cleaned up.
C24_DeadSessionStays ==
  [][\A id \in DOMAIN sessions :
       socks[sessions[id]].dead
       => \/ /\ MapHas(sessions', id)
             /\ sessions'[id] = sessions[id]
             /\ socks'[sessions[id]].connection = "close"
             /\ Len(socks') = Len(socks)
             /\ \A t \in Slots :
                  /\ (/\ tasks[t].pc = "idle"
                      /\ tasks'[t].op \in {"messages", "qrcode", "get_or_create"}
                      /\ tasks'[t].id = id /\ tasks'[t].sess # 0)
                     => tasks'[t].sess = sessions[id]
                  /\ (/\ tasks[t].pc = "idle" /\ tasks'[t].op = "messages"
                      /\ tasks'[t].id = id /\ tasks'[t].sess # 0)
                     => /\ tasks'[t].pc = "done"
                        /\ tasks'[t].resp = "409:instance_not_ready"
          \/ \E t \in Slots :
               /\ tasks'[t] # tasks[t]
               /\ tasks'[t].op = "event"
               /\ tasks'[t].from = sessions[id]
               /\ tasks'[t].ev.connection = "open"
          \/ \E t \in Slots :
               /\ tasks[t].pc = "logout" /\ tasks[t].id = id
               /\ ~MapHas(sessions', id)]_vars

\* C25: a connection event is applied only to the session that owns the
\* handle which emitted it -- when the handle was not the registered one of
\* its instance id as it emitted (the handler found no session, or another
\* handle's), no step of the handler changes the registered session, the
\* registry entry, the catalog record or the credential directory of the id.
C25_StaleHandleEventsIgnored ==
  [][\A t \in Slots :
       (/\ tasks'[t] # tasks[t]
        /\ tasks'[t].op = "event"
        /\ tasks'[t].sess # tasks'[t].from)
       => /\ sessions' = sessions
          /\ MapHas(sessions, tasks'[t].id)
             => socks'[sessions[tasks'[t].id]] = socks[sessions[tasks'[t].id]]
          /\ StoreGet(instances', tasks'[t].id) = StoreGet(instances, tasks'[t].id)
          /\ authDir'[tasks'[t].id] = authDir[tasks'[t].id]]_vars

\* C26: reconciliation never creates or resurrects a catalog record -- no
\* step of an event's handler changes which ids the catalog holds; a step
\* taken while the id has no record (deleted before or while the event was
\* handled) leaves the catalog as it is; and a handler that finds no session
\* registered for the id ends at once, catalog, file and registry untouched.
C26_ReconcileNeverCreatesRecord ==
  [][\A t \in Slots :
       (tasks'[t] # tasks[t] /\ tasks'[t].op = "event")
       => /\ DOMAIN instances' = DOMAIN instances
          /\ ~MapHas(instances, tasks'[t].id) => instances' = instances
          /\ (tasks[t].pc = "idle" /\ ~MapHas(sessions, tasks'[t].id))
             => /\ tasks'[t].pc = "done"
                /\ instances' = instances
                /\ file' = file
                /\ sessions' = sessions
                /\ socks' = socks]_vars

\* the instance was deleted while its QR event was being handled; the
\* handler has stored the QR in the session it held and ended, and the
\* catalog has no record of the id
C26_Witness ==
  \E t \in Slots :
    /\ Handled(t)
    /\ tasks[t].ev.qr # ""
    /\ socks[tasks[t].sess].qr.value = tasks[t].ev.qr
    /\ socks[tasks[t].sess].closed
    /\ ~MapHas(sessions, tasks[t].id)
    /\ ~MapHas(instances, tasks[t].id)

\* C27: instance creation through POST /instances is all-or-nothing -- when
\* the request is answered with an error (invalid payload, duplicate id, or a
\* failure after the record was inserted) the catalog holds no record and the
\* registry no session that was not there before the request; a 201 answer
\* implies that both the record and a registered session exist.
C27_CreateAllOrNothing ==
  [][\A t \in Slots :
       (/\ tasks[t].pc # "done" /\ tasks'[t].pc = "done"
        /\ tasks'[t].op = "post_instances")
       => /\ tasks'[t].resp = "201"
             => /\ MapHas(instances', tasks'[t].id)
                /\ MapHas(sessions', tasks'[t].id)
          /\ (tasks'[t].resp # "201" /\ tasks[t].pc = "idle")
             => instances' = instances /\ sessions' = sessions
          /\ (tasks'[t].resp # "201" /\ tasks[t].pc # "idle")
             => /\ ~MapHas(instances', tasks'[t].id)
                /\ sessions' = sessions]_vars

\* C28: forcing a status through PATCH /instances/:id/status changes only
\* the status of that catalog record -- the other records, its metadata, the
\* registry (which sessions exist, their QR and phase) and the credential
\* directories are as they were; and whether a send may proceed is decided
\* by the session's phase alone: with status 'ready' and a phase that is not
\* 'open' the request is answered instance_not_ready, with status
\* 'disconnected' and phase 'open' the message goes to the socket.
C28_PatchChangesOnlyStatus ==
  [][\A t \in Slots :
       /\ (tasks'[t] # tasks[t] /\ tasks'[t].op = "patch_status")
          => /\ sessions' = sessions
             /\ socks' = socks
             /\ authDir' = authDir
             /\ DOMAIN instances' = DOMAIN instances
             /\ \A j \in DOMAIN instances :
                  /\ instances'[j].metadata = instances[j].metadata
                  /\ j # tasks'[t].id => instances'[j] = instances[j]
             /\ (tasks[t].pc = "idle" /\ tasks'[t].pc = "status_save")
                => instances'[tasks'[t].id].status = tasks'[t].arg
       /\ (/\ tasks[t].pc = "idle" /\ tasks'[t].op = "messages"
           /\ MapHas(instances, tasks'[t].id) /\ MapHas(sessions, tasks'[t].id))
          => LET phase == socks[sessions[tasks'[t].id]].connection
                 status == instances[tasks'[t].id].status IN
             /\ (status = "ready" /\ phase # "open")
                => /\ tasks'[t].pc = "done"
                   /\ tasks'[t].resp = "409:instance_not_ready"
             /\ (status = "disconnected" /\ phase = "open"
                 /\ tasks'[t].payload.type = "text")
                => tasks'[t].pc = "send"]_vars

\* the status of an instance whose session is open was forced to
\* 'disconnected', and a message for it is on its way to the socket
C28_Witness ==
  \E t \in Slots :
    /\ tasks[t].pc = "send"
    /\ instances[tasks[t].id].status = "disconnected"
    /\ file = Serialize(instances)
    /\ socks[tasks[t].sess].connection = "open"
    /\ sessions[tasks[t].id] = tasks[t].sess

====
